---- MODULE Spec2Model ----
(***************************************************************************)
(* Saturnus_Magister: the match decision engine (src/ai/job_matcher.py),   *)
(* the routing decision engine and task materializer                       *)
(* (src/services/task_router.py) and the processing orchestrator           *)
(* (src/services/email_processor.py) over the tables of                    *)
(* src/db/repository.py.                                                   *)
(*                                                                         *)
(* Scores are fixed-point: the float 1.0 is SCALE, so that every percent   *)
(* value and every day of the 90-day timeline window is an integer.        *)
(***************************************************************************)
EXTENDS Integers, Sequences, FiniteSets, TLC

VARIABLES
    emails,               \* table emails: rows in insertion order, id = index
    email_job_matches,    \* table email_job_matches
    manual_review_queue,  \* table manual_review_queue
    response_analytics,   \* table response_analytics
    ticktick_tasks,       \* table ticktick_tasks
    stats,                \* the stats dict of the current process_new_emails run
    pc,                   \* where process_new_emails stands: idle, inbox, sent
    todo,                 \* the fetched messages the current loop has still to visit
    runs,                 \* process_new_emails runs started so far
    lastMatch,            \* the most recent match_email_to_job call and its result
    lastPipeline,         \* the most recent per-message pipeline and what it did
    stop_event,           \* main's asyncio.Event, set by the signal handler
    main_pc,              \* where main stands: while, process, sync, wait, finally,
                          \* returned
    shutdown_calls,       \* calls of processor.shutdown() so far
    lastCall              \* the most recent call of a scoring function of the
                          \* matcher and its result

vars == <<emails, email_job_matches, manual_review_queue, response_analytics,
          ticktick_tasks, stats, pc, todo, runs, lastMatch, lastPipeline,
          stop_event, main_pc, shutdown_calls, lastCall>>

dbVars == <<emails, email_job_matches, manual_review_queue, response_analytics,
            ticktick_tasks>>

runVars == <<stats, pc, todo, runs>>

mainVars == <<stop_event, main_pc, shutdown_calls>>

----------------------------------------------------------------------------
(* Bounds of the model *)

MaxJobs == 3
MaxRuns == 2
\* manual_link calls in one review session
MaxLinks == 2
\* the last tick of the timestamps drawn (92 days)
MaxTick == 184
\* the length of the strings drawn
MaxLen == 3

----------------------------------------------------------------------------
(* Constants of the program *)

TIMELINE_WINDOW_DAYS == 90
SCALE == TIMELINE_WINDOW_DAYS * 100

\* the weights, in percent
COMPANY_NAME_WEIGHT == 40
DOMAIN_WEIGHT == 20
POSITION_WEIGHT == 30
TIMELINE_WEIGHT == 10

Pct(p) == (p * SCALE) \div 100

auto_match_threshold == Pct(85)
review_threshold == Pct(50)
\* the literal 0.15 of match_email_to_job and the literal 0.1 of find_matches
AMBIGUITY_BAND == Pct(15)
NOISE_FLOOR == Pct(10)

Abs(x) == IF x < 0 THEN -x ELSE x
Max(a, b) == IF b > a THEN b ELSE a

----------------------------------------------------------------------------
(* JobMatcher: the sub-scores _timeline_score, _fuzzy_match_score and the
   domain match of find_matches *)

\* A timestamp is a number of ticks, TicksPerDay ticks to the day.
TicksPerDay == 2

\* timedelta.days: the whole days of a difference, rounded down (a timedelta
\* of minus half a day has days = -1)
Days(delta) == delta \div TicksPerDay

\* "days_diff = abs((email_date - application_date).days)", then the linear
\* decay over the window
_timeline_score(application_date, email_date) ==
    LET days_diff == Abs(Days(email_date - application_date))
    IN IF days_diff <= TIMELINE_WINDOW_DAYS
       THEN SCALE - (days_diff * SCALE) \div TIMELINE_WINDOW_DAYS
       ELSE 0

\* A string is a sequence of characters; str.lower() maps "A" to "a" and "B" to
\* "b" and keeps the other characters.
LowerChar(c) == IF c = "A" THEN "a" ELSE IF c = "B" THEN "b" ELSE c

lower(x) == [i \in DOMAIN x |-> LowerChar(x[i])]

\* the length of a longest common subsequence
RECURSIVE LCS(_, _)
LCS(x, y) ==
    IF x = <<>> \/ y = <<>> THEN 0
    ELSE IF Head(x) = Head(y) THEN 1 + LCS(Tail(x), Tail(y))
    ELSE Max(LCS(Tail(x), y), LCS(x, Tail(y)))

\* a ratio that counts the common characters once
HalfRatio(x, y) ==
    IF Len(x) + Len(y) = 0 THEN SCALE
    ELSE (LCS(x, y) * SCALE) \div (Len(x) + Len(y))

\* rapidfuzz.fuzz.ratio / 100: the normalized Indel similarity
\* 2 * LCS / (len(x) + len(y)), 1.0 for two empty strings
ratio(x, y) ==
    IF Len(x) + Len(y) = 0 THEN SCALE
    ELSE (2 * LCS(x, y) * SCALE) \div (Len(x) + Len(y))

\* "if not a or not b: return 0.0", else the ratio of the lower-cased strings
_fuzzy_match_score(a, b) ==
    IF a = <<>> \/ b = <<>> THEN 0 ELSE ratio(lower(a), lower(b))

\* Python None for a string
None == <<"None">>

\* the index of the first "@" of a string, 0 when there is none
RECURSIVE FirstAt(_, _)
FirstAt(x, i) ==
    IF i > Len(x) THEN 0 ELSE IF x[i] = "@" THEN i ELSE FirstAt(x, i + 1)

\* email.split("@")[1].lower(): what stands between the first "@" and the
\* next one (or the end); None without an "@"
_extract_domain(email) ==
    IF FirstAt(email, 1) = 0 THEN None
    ELSE LET rest == SubSeq(email, FirstAt(email, 1) + 1, Len(email))
             stop == FirstAt(rest, 1)
         IN lower(IF stop = 0 THEN rest ELSE SubSeq(rest, 1, stop - 1))

\* a test of the first string inside the second
ContainedIn(hay, needle) ==
    \E i \in 1..(Len(needle) + 1) :
        /\ i + Len(hay) - 1 <= Len(needle)
        /\ SubSeq(needle, i, i + Len(hay) - 1) = hay

\* Python "needle in hay" for strings
Contains(hay, needle) ==
    \E i \in 1..(Len(hay) + 1) :
        /\ i + Len(needle) - 1 <= Len(hay)
        /\ SubSeq(hay, i, i + Len(needle) - 1) = needle

\* the domain branch of find_matches for the sender address (None is taken as
\* "" by "email.sender_email or \"\"") and the company_domain of the job row:
\* computed tells whether the branch was entered
domain_match(sender_email, company_domain) ==
    LET sender_domain ==
            _extract_domain(IF sender_email = None THEN <<>> ELSE sender_email)
        computed == /\ sender_domain \notin {None, <<>>}
                    /\ company_domain \notin {None, <<>>}
    IN [computed |-> computed,
        domain_score |->
            IF computed /\ ( sender_domain = company_domain
                             \/ Contains(sender_domain, company_domain) )
            THEN SCALE ELSE 0]

----------------------------------------------------------------------------
(* JobMatcher: find_matches, disambiguate_with_ai, match_email_to_job *)

\* A row of applied_jobs as find_matches sees it for one email: the four
\* sub-scores it computes for the row (0 where the input is missing).
JobIds == 1..(MaxJobs + 1)

\* "no candidate" (Python None), of the shape of a candidate
NoCandidate == [job_id |-> 0, match_score |-> 0, ai_reasoning |-> FALSE]

total_score(job) ==
    ( job.company_score * COMPANY_NAME_WEIGHT
    + job.domain_score * DOMAIN_WEIGHT
    + job.position_score * POSITION_WEIGHT
    + job.timeline_score * TIMELINE_WEIGHT ) \div 100

JobMatchCandidate(job) ==
    [job_id |-> job.job_id, match_score |-> total_score(job), ai_reasoning |-> FALSE]

\* the loop of find_matches: a candidate per job whose total exceeds the floor
RECURSIVE Retained(_)
Retained(jobs) ==
    IF jobs = <<>> THEN <<>>
    ELSE LET rest == Retained(Tail(jobs)) IN
         IF total_score(Head(jobs)) > NOISE_FLOOR
         THEN <<JobMatchCandidate(Head(jobs))>> \o rest
         ELSE rest

\* a sort that puts a later candidate before the earlier ones of its score
RECURSIVE InsertBeforeEqual(_, _)
InsertBeforeEqual(c, sorted) ==
    IF sorted = <<>> THEN <<c>>
    ELSE IF Head(sorted).match_score > c.match_score
         THEN <<Head(sorted)>> \o InsertBeforeEqual(c, Tail(sorted))
         ELSE <<c>> \o sorted

\* list.sort(key=match_score, reverse=True): stable, equal scores keep their order
RECURSIVE InsertByScore(_, _)
InsertByScore(c, sorted) ==
    IF sorted = <<>> THEN <<c>>
    ELSE IF Head(sorted).match_score >= c.match_score
         THEN <<Head(sorted)>> \o InsertByScore(c, Tail(sorted))
         ELSE <<c>> \o sorted

RECURSIVE SortByScore(_)
SortByScore(cs) ==
    IF cs = <<>> THEN <<>>
    ELSE LET n == Len(cs) IN
         InsertByScore(cs[n], SortByScore(SubSeq(cs, 1, n - 1)))

find_matches(jobs) == SortByScore(Retained(jobs))

\* the job ids of a candidate list
JobIdsOf(candidates) == {candidates[i].job_id : i \in DOMAIN candidates}

\* The answer of the ranking service to one chat.completions.create call:
\*   kind "error"      the call raises (timeout, service error)
\*   kind "bad_json"   json.loads raises
\*   kind "no_id"      best_match_job_id is missing (UUID(None) raises)
\*   kind "bad_uuid"   best_match_job_id is no UUID (UUID(...) raises)
\*   kind "answer"     best is the job id named; conf is the "confidence" value:
\*                     "absent", "number" (val), or "other" (null, a string)

\* a search that takes the top candidate for whatever id is named
AlwaysTop(candidates, id) == 1

\* the place of the candidate whose job_id is id (the for loop), 0 if none
IndexOfJob(candidates, id) ==
    LET hits == {i \in 1..Len(candidates) : candidates[i].job_id = id} IN
    IF hits = {} THEN 0 ELSE CHOOSE i \in hits : \A j \in hits : i <= j

\* a reconciliation that takes the confidence as the score
TakesConfidence(original, conf) ==
    IF conf.kind = "absent" THEN original ELSE conf.val

\* candidate.match_score = max(candidate.match_score, result.get("confidence", ...))
ReconciledScore(original, conf) ==
    IF conf.kind = "absent" THEN original ELSE Max(original, conf.val)

\* returns the candidate returned, the candidate list as the call leaves it
\* (candidates are mutated in place), and whether the service was asked
disambiguate_with_ai(candidates, response) ==
    LET fallback == [best |-> candidates[1], candidates |-> candidates, asked |-> TRUE]
        i == IndexOfJob(candidates, response.best)
    IN
    IF Len(candidates) < 2
    THEN [best |-> IF candidates # <<>> THEN candidates[1] ELSE NoCandidate,
          candidates |-> candidates, asked |-> FALSE]
    ELSE IF response.kind # "answer" THEN fallback
    ELSE IF i = 0 THEN fallback
    ELSE IF response.conf.kind = "other" THEN fallback   \* max() raises TypeError
    ELSE LET updated == [candidates[i] EXCEPT
                            !.match_score = ReconciledScore(@, response.conf),
                            !.ai_reasoning = TRUE]
         IN [best |-> updated,
             candidates |-> [candidates EXCEPT ![i] = updated],
             asked |-> TRUE]

\* a band that includes a gap of exactly 0.15
IsAmbiguousInclusive(candidates) ==
    /\ Len(candidates) > 1
    /\ Abs(candidates[1].match_score - candidates[2].match_score) <= AMBIGUITY_BAND

\* the test that sends match_email_to_job to the disambiguator
IsAmbiguous(candidates) ==
    /\ Len(candidates) > 1
    /\ Abs(candidates[1].match_score - candidates[2].match_score) < AMBIGUITY_BAND

\* a decision that auto-matches whatever clears the review threshold
ClearsReviewThreshold(candidate) ==
    candidate # NoCandidate /\ candidate.match_score >= review_threshold

\* "best_match and best_match.match_score >= settings.auto_match_threshold"
ClearsAutoThreshold(candidate) ==
    candidate # NoCandidate /\ candidate.match_score >= auto_match_threshold

match_email_to_job(jobs, response) ==
    LET candidates == find_matches(jobs)
        plain(best, review) ==
            [best_match |-> best, needs_review |-> review, disambiguated |-> FALSE,
             candidates |-> candidates, after |-> candidates]
    IN
    IF candidates = <<>> THEN plain(NoCandidate, TRUE)
    ELSE IF ClearsAutoThreshold(candidates[1])
         THEN plain(candidates[1], FALSE)
    ELSE IF IsAmbiguous(candidates)
         THEN LET d == disambiguate_with_ai(candidates, response) IN
              [best_match |-> d.best,
               needs_review |-> ~ClearsAutoThreshold(d.best),
               disambiguated |-> TRUE,
               candidates |-> candidates, after |-> d.candidates]
    ELSE IF candidates[1].match_score >= review_threshold
         THEN plain(candidates[1], TRUE)
    ELSE plain(candidates[1], TRUE)

----------------------------------------------------------------------------
(* Models of src/db/models.py *)

Categories ==
    {"interview_invite", "assignment", "rejection", "offer", "info",
     "follow_up_needed", "unknown",
     "sent_application", "sent_availability", "sent_follow_up", "sent_documents"}

Sentiments == {"positive", "negative", "neutral"}

\* effort_level as the pipeline holds it: "none" is Python None
EffortLevels == {"none", "low", "medium", "high"}

\* A key of extracted_data: "absent" (no such key), "null" (the key with None or
\* an empty value), "valid" (an ISO date string), "invalid" (anything else)
DateStates == {"absent", "null", "valid", "invalid"}

\* EmailClassification as the pipelines read it; confidence in percent
Classification(category, sentiment, interview_date, deadline, proposed_times) ==
    [category |-> category, sentiment |-> sentiment, confidence |-> 95,
     interview_date |-> interview_date, deadline |-> deadline,
     proposed_times |-> proposed_times]

\* no classification was made
NoClassification ==
    [category |-> "none", sentiment |-> "none", confidence |-> 0,
     interview_date |-> "absent", deadline |-> "absent", proposed_times |-> <<>>]

\* The reply of the classification service to one chat.completions.create call:
\*   kind "api_error"       the call raises
\*   kind "bad_json"        json.loads raises
\*   kind "bad_category"    EmailCategory(...) raises ValueError
\*   kind "bad_sentiment"   Sentiment(...) raises ValueError
\*   kind "bad_confidence"  float(...) raises, or the value is outside [0, 1]
\*   kind "ok"              the reply parses to the classification it holds
ClassifierFailure(kind) == [kind |-> kind, classification |-> NoClassification]
Classified(classification) == [kind |-> "ok", classification |-> classification]

ClassifierFailures ==
    {"api_error", "bad_json", "bad_category", "bad_sentiment", "bad_confidence"}

\* a fallback that files the message as informational
InfoFallback ==
    [category |-> "info", sentiment |-> "neutral", confidence |-> 0,
     interview_date |-> "absent", deadline |-> "absent", proposed_times |-> <<>>]

\* the EmailClassification of the except branch of classify
FallbackClassification ==
    [category |-> "unknown", sentiment |-> "neutral", confidence |-> 0,
     interview_date |-> "absent", deadline |-> "absent", proposed_times |-> <<>>]

\* EmailClassifier.classify
classify(reply) ==
    IF reply.kind = "ok" THEN reply.classification ELSE FallbackClassification

\* bool(extracted_data and extracted_data.get(key))
Truthy(d) == d \in {"valid", "invalid"}

----------------------------------------------------------------------------
(* TaskRouter._determine_routing *)

\* a table that gives every category the default priority
DefaultPriority(category, effort_level) == 3

\* the priority each branch assigns, before the sentiment bump
BasePriority(category, effort_level) ==
    IF category \in {"interview_invite", "offer"} THEN 5
    ELSE IF category = "assignment" THEN 4
    ELSE IF category = "follow_up_needed" THEN 3
    ELSE IF category = "rejection" THEN (IF effort_level = "high" THEN 2 ELSE 1)
    ELSE IF category = "info" THEN 2
    ELSE 3

\* a bump without the cap
UncappedBump(base, sentiment) ==
    IF sentiment = "positive" THEN base + 1 ELSE base

\* "if priority < 5: priority += 1" for a positive sentiment
SentimentPriority(base, sentiment) ==
    IF sentiment = "positive" /\ base < 5 THEN base + 1 ELSE base

\* the tag appended after the category name
SentimentTag(sentiment) ==
    IF sentiment = "positive" THEN "positive"
    ELSE IF sentiment = "negative" THEN "negative" ELSE "neutral"

_determine_routing(classification, effort_level) ==
    LET category == classification.category
        sentiment == classification.sentiment
        create_calendar ==
            IF category \in {"interview_invite", "offer"}
            THEN Truthy(classification.interview_date)
            ELSE IF category = "assignment" THEN Truthy(classification.deadline)
            ELSE FALSE
        quadrant ==
            IF category \in {"interview_invite", "offer"} THEN "q1"
            ELSE IF category \in {"assignment", "follow_up_needed"} THEN "q2"
            ELSE IF category = "rejection"
                 THEN (IF effort_level = "high" THEN "q2" ELSE "q4")
            ELSE "q3"
        reminders ==
            IF category \in {"interview_invite", "offer"}
            THEN (IF create_calendar THEN <<"-1d", "-1h", "-15m">> ELSE <<"-1d">>)
            ELSE IF category = "assignment"
                 THEN (IF create_calendar THEN <<"-1d", "-3h">> ELSE <<>>)
            ELSE IF category = "follow_up_needed" THEN <<"-1d">>
            ELSE <<>>
        base == BasePriority(category, effort_level)
        priority == SentimentPriority(base, sentiment)
        tags == <<category, SentimentTag(sentiment)>>
    IN [quadrant |-> quadrant,
        create_calendar_event |-> create_calendar,
        enable_countdown |-> create_calendar,
        priority |-> priority,
        tags |-> tags,
        reminders |-> reminders]

\* no routing decision was taken
NoRouting ==
    [quadrant |-> "none", create_calendar_event |-> FALSE,
     enable_countdown |-> FALSE, priority |-> 0,
     tags |-> <<>>, reminders |-> <<>>]

----------------------------------------------------------------------------
(* TaskRouter.route_email and the three task builders *)

\* datetime.fromisoformat on the first of interview_date, deadline that is a key
\* of extracted_data: "ok", "raise" (None or no ISO string), "none" (neither key)
ExtractedTime(classification) ==
    IF classification.interview_date # "absent"
    THEN (IF classification.interview_date = "valid" THEN "ok" ELSE "raise")
    ELSE IF classification.deadline # "absent"
         THEN (IF classification.deadline = "valid" THEN "ok" ELSE "raise")
    ELSE "none"

TickTickTaskModel(email_id, project, is_calendar_event, priority) ==
    [email_id |-> email_id, project |-> project,
     is_calendar_event |-> is_calendar_event, priority |-> priority,
     synced |-> FALSE, sync_error |-> FALSE]

\* a guard that skips the task for low effort only
SkipsLowEffortOnly(category, effort_level) ==
    category = "rejection" /\ effort_level = "low"

\* the rejection test that guards _create_eisenhower_task
SkipsEisenhower(category, effort_level) ==
    category = "rejection" /\ effort_level # "high"

WorkCategories == {"interview_invite", "assignment", "follow_up_needed"}

\* A step of a pipeline over the tables: s is the record of the tables plus
\* raised (an exception is propagating) and at (the step that raised it).
Raise(s, step) == [s EXCEPT !.raised = TRUE, !.at = step]

\* fail names the repository call that raises in this pipeline, or "none"
RouteCalendar(s, email_id, classification, routing, fail) ==
    IF s.raised \/ ~routing.create_calendar_event THEN s
    ELSE IF ExtractedTime(classification) = "raise" THEN Raise(s, "route_calendar")
    ELSE IF ExtractedTime(classification) = "none" THEN s
    ELSE IF fail = "create_task_calendar" THEN Raise(s, "route_calendar")
    ELSE [s EXCEPT !.ticktick_tasks =
              Append(@, TickTickTaskModel(email_id, "work", TRUE, 5))]

RouteEisenhower(s, email_id, classification, effort_level, routing, fail) ==
    IF s.raised \/ SkipsEisenhower(classification.category, effort_level) THEN s
    ELSE IF fail = "create_task_quadrant" THEN Raise(s, "route_quadrant")
    ELSE [s EXCEPT !.ticktick_tasks =
              Append(@, TickTickTaskModel(email_id, routing.quadrant, FALSE,
                                          routing.priority))]

RouteWork(s, email_id, classification, routing, fail) ==
    IF s.raised \/ classification.category \notin WorkCategories THEN s
    ELSE IF ExtractedTime(classification) = "raise" THEN Raise(s, "route_work")
    ELSE IF fail = "create_task_work" THEN Raise(s, "route_work")
    ELSE [s EXCEPT !.ticktick_tasks =
              Append(@, TickTickTaskModel(email_id, "work", FALSE, routing.priority))]

route_email(s, email_id, classification, effort_level, fail) ==
    LET routing == _determine_routing(classification, effort_level)
        s1 == RouteCalendar(s, email_id, classification, routing, fail)
        s2 == RouteEisenhower(s1, email_id, classification, effort_level, routing, fail)
    IN RouteWork(s2, email_id, classification, routing, fail)

----------------------------------------------------------------------------
(* EmailProcessor._process_inbound_email and _process_outbound_email *)

\* The repository calls of a pipeline, any one of which may raise (the database
\* is a collaborator); "none": no call raises.
RepositoryCalls ==
    {"create_email", "find_matches", "create_match", "add_to_review_queue",
     "record_response", "get_company_rejection_count", "create_task_calendar",
     "create_task_quadrant", "create_task_work", "mark_email_processed"}

Tables ==
    [emails |-> emails, email_job_matches |-> email_job_matches,
     manual_review_queue |-> manual_review_queue,
     response_analytics |-> response_analytics,
     ticktick_tasks |-> ticktick_tasks, raised |-> FALSE, at |-> "none"]

\* step 2: db.create_email
StoreEmail(s, gmail_id, classification, fail) ==
    IF fail = "create_email" THEN Raise(s, "create_email")
    ELSE [s EXCEPT !.emails =
              Append(@, [gmail_id |-> gmail_id,
                         category |-> classification.category,
                         processed |-> FALSE])]

\* match_method of the inbound record
InboundMatchMethod(needs_review) ==
    IF ~needs_review THEN "auto" ELSE "ai_disambiguation"

\* EmailJobMatchModel(...) validates match_score (Field(ge=0.0, le=1.0)), then
\* db.create_match inserts the row
SaveMatch(s, email_id, best_match, method, needs_review, fail) ==
    IF s.raised \/ best_match = NoCandidate THEN s
    ELSE IF best_match.match_score < 0 \/ best_match.match_score > SCALE
         THEN Raise(s, "create_match")
    ELSE IF fail = "create_match" THEN Raise(s, "create_match")
    ELSE [s EXCEPT !.email_job_matches =
              Append(@, [email_id |-> email_id, job_id |-> best_match.job_id,
                         match_score |-> best_match.match_score,
                         match_method |-> method,
                         needs_review |-> needs_review])]

\* a reason taken from the match alone
ReasonFromMatchOnly(has_match, category) ==
    IF ~has_match THEN "no_match_found" ELSE "low_confidence_match"

ReviewReason(has_match, category) ==
    IF category = "unknown" THEN "ambiguous_category"
    ELSE IF ~has_match THEN "no_match_found" ELSE "low_confidence_match"

\* step 4: db.add_to_review_queue
QueueReview(s, email_id, has_match, needs_review, category, fail) ==
    IF s.raised \/ ~needs_review THEN s
    ELSE IF fail = "add_to_review_queue" THEN Raise(s, "add_to_review_queue")
    ELSE [s EXCEPT !.manual_review_queue =
              Append(@, [email_id |-> email_id,
                         reason |-> ReviewReason(has_match, category),
                         priority |-> IF category \in {"interview_invite", "offer"}
                                      THEN 8 ELSE 5,
                         resolved |-> FALSE])]

AnalyticsCategories == {"rejection", "interview_invite", "offer"}

\* step 5: db.record_response, then get_company_rejection_count for a matched
\* rejection
RecordAnalytics(s, email_id, has_match, category, effort_level, fail) ==
    IF s.raised \/ category \notin AnalyticsCategories THEN s
    ELSE IF fail = "record_response" THEN Raise(s, "record_response")
    ELSE LET t == [s EXCEPT !.response_analytics =
                      Append(@, [email_id |-> email_id, response_type |-> category,
                                 effort_level |-> effort_level])]
         IN IF category = "rejection" /\ has_match
               /\ fail = "get_company_rejection_count"
            THEN Raise(t, "get_company_rejection_count")
            ELSE t

\* the test of step 6
RoutesEmail(needs_review, category) ==
    ~needs_review \/ category \in {"interview_invite", "offer"}

\* a last step that marks the stored message whatever happened before
MarksAfterRaise(s, email_id, fail) ==
    IF s.emails = <<>> THEN s
    ELSE [s EXCEPT !.emails[email_id].processed = TRUE]

\* step 7: db.mark_email_processed
MarkProcessed(s, email_id, fail) ==
    IF s.raised THEN s
    ELSE IF fail = "mark_email_processed" THEN Raise(s, "mark_email_processed")
    ELSE [s EXCEPT !.emails[email_id].processed = TRUE]

\* The whole of _process_inbound_email on the tables s0. job_effort is the
\* effort_level of get_job_by_id ("none": no row, no value, or the query failed).
\* Returns the tables it leaves and what it decided.
_process_inbound_email(s0, gmail_id, reply, jobs, response, job_effort, fail) ==
    LET classification == classify(reply)
        category == classification.category
        s1 == StoreEmail(s0, gmail_id, classification, fail)
        email_id == Len(s1.emails)
        matched == ~s1.raised /\ fail # "find_matches"
        m == match_email_to_job(jobs, response)
        s2 == IF s1.raised THEN s1
              ELSE IF fail = "find_matches" THEN Raise(s1, "find_matches")
              ELSE s1
        has_match == m.best_match # NoCandidate
        s3 == SaveMatch(s2, email_id, m.best_match,
                        InboundMatchMethod(m.needs_review), m.needs_review, fail)
        effort_level == IF has_match THEN job_effort ELSE "none"
        needs_review == IF has_match THEN m.needs_review ELSE TRUE
        s4 == QueueReview(s3, email_id, has_match, needs_review, category, fail)
        s5 == RecordAnalytics(s4, email_id, has_match, category, effort_level, fail)
        routed == ~s5.raised /\ RoutesEmail(needs_review, category)
        s6 == IF routed
              THEN route_email(s5, email_id, classification, effort_level, fail)
              ELSE s5
        s7 == MarkProcessed(s6, email_id, fail)
    IN [tables |-> s7, matched |-> matched, match |-> m, email_id |-> email_id,
        effort_level |-> effort_level, needs_review |-> needs_review,
        routed |-> routed, classification |-> classification,
        routing |-> IF routed THEN _determine_routing(classification, effort_level)
                    ELSE NoRouting]

\* the placeholders of a sent_availability message: one per proposed time that
\* parses, of the first three; any exception of one is swallowed
RECURSIVE Placeholders(_, _, _)
Placeholders(email_id, times, fail) ==
    IF times = <<>> THEN <<>>
    ELSE (IF Head(times) = "valid" /\ fail # "create_task_placeholder"
          THEN <<TickTickTaskModel(email_id, "work", TRUE, 3)>> ELSE <<>>)
         \o Placeholders(email_id, Tail(times), fail)

FirstThree(times) == SubSeq(times, 1, IF Len(times) < 3 THEN Len(times) ELSE 3)

_process_outbound_email(s0, gmail_id, reply, jobs, response, fail) ==
    LET classification == classify(reply)
        s1 == StoreEmail(s0, gmail_id, classification, fail)
        email_id == Len(s1.emails)
        matched == ~s1.raised /\ fail # "find_matches"
        m == match_email_to_job(jobs, response)
        s2 == IF s1.raised THEN s1
              ELSE IF fail = "find_matches" THEN Raise(s1, "find_matches")
              ELSE s1
        s3 == SaveMatch(s2, email_id, m.best_match, "auto", FALSE, fail)
        s4 == IF ~s3.raised /\ classification.category = "sent_availability"
              THEN [s3 EXCEPT !.ticktick_tasks =
                       @ \o Placeholders(email_id,
                                         FirstThree(classification.proposed_times),
                                         fail)]
              ELSE s3
        s5 == MarkProcessed(s4, email_id, fail)
    IN [tables |-> s5, matched |-> matched, match |-> m, email_id |-> email_id,
        effort_level |-> "none", needs_review |-> FALSE, routed |-> FALSE,
        classification |-> classification, routing |-> NoRouting]

----------------------------------------------------------------------------
(* Inputs *)

Profile(c, d, p, t) ==
    [company_score |-> Pct(c), domain_score |-> Pct(d),
     position_score |-> Pct(p), timeline_score |-> Pct(t)]

\* sub-scores whose totals are 1.0, 0.85, 0.75, 0.60, 0.50, 0.45, 0.10 and 0
JobProfiles ==
    {Profile(100, 100, 100, 100), Profile(100, 100, 50, 100),
     Profile(100, 100, 50, 0), Profile(100, 100, 0, 0), Profile(100, 0, 0, 100),
     Profile(50, 0, 50, 100), Profile(0, 0, 0, 100), Profile(0, 0, 0, 0)}

\* the rows get_recent_job_applications returns: the job in place i has id i
WithIds(profiles) ==
    [i \in 1..Len(profiles) |->
        [job_id |-> i,
         company_score |-> profiles[i].company_score,
         domain_score |-> profiles[i].domain_score,
         position_score |-> profiles[i].position_score,
         timeline_score |-> profiles[i].timeline_score]]

JobLists ==
    UNION {{WithIds(ps) : ps \in [1..n -> JobProfiles]} : n \in 0..MaxJobs}

\* an id the service may name that is no job's id
UnknownJobId == MaxJobs + 1

NoConfidence == [kind |-> "absent", val |-> 0]
Confidences ==
    {NoConfidence, [kind |-> "other", val |-> 0]}
    \cup {[kind |-> "number", val |-> v] : v \in {Pct(30), Pct(85), Pct(150)}}

ServiceFailure(kind) == [kind |-> kind, best |-> 0, conf |-> NoConfidence]
Answer(best, conf) == [kind |-> "answer", best |-> best, conf |-> conf]

Responses ==
    {ServiceFailure(k) : k \in {"error", "bad_json", "no_id", "bad_uuid"}}
    \cup {Answer(b, c) : b \in JobIds, c \in Confidences}

\* the confidence values a parsed reply carries, in percent
ClassifierConfidences == {30, 95}

InboundClassifications ==
    {[Classification(c, s, i, d, <<>>) EXCEPT !.confidence = k] :
        c \in Categories, s \in Sentiments, i \in DateStates, d \in DateStates,
        k \in ClassifierConfidences}


OutboundClassifications ==
    {Classification(c, "neutral", "absent", "absent", t) :
        c \in Categories,
        t \in {<<>>, <<"valid">>, <<"invalid", "valid">>,
               <<"valid", "valid", "valid", "valid">>}}

\* what the classification service may reply for a message
InboundReplies ==
    {Classified(c) : c \in InboundClassifications}
    \cup {ClassifierFailure(k) : k \in ClassifierFailures}

OutboundReplies ==
    {Classified(c) : c \in OutboundClassifications}
    \cup {ClassifierFailure(k) : k \in ClassifierFailures}

\* two jobs 0.60 and 0.50: inside the ambiguity band, below the thresholds
AmbiguousPair == WithIds(<<Profile(100, 100, 0, 0), Profile(100, 0, 0, 100)>>)

\* the matcher inputs of the per-message pipeline: no candidate, an auto
\* match, a review match, a weak match, and an ambiguous pair
PipelineJobLists ==
    {<<>>,
     WithIds(<<Profile(100, 100, 50, 100)>>),
     WithIds(<<Profile(100, 100, 0, 0)>>),
     WithIds(<<Profile(50, 0, 50, 100)>>),
     AmbiguousPair}

\* <<jobs, response>>: the response is read only for the ambiguous pair
PipelineMatchInputs ==
    {<<j, ServiceFailure("error")>> : j \in PipelineJobLists}
    \cup {<<AmbiguousPair, Answer(2, [kind |-> "number", val |-> v])>> :
             v \in {Pct(90), Pct(150)}}

PipelineInput(reply, jobs, response, job_effort, fail) ==
    [reply |-> reply, jobs |-> jobs, response |-> response,
     job_effort |-> job_effort, fail |-> fail]

\* the repository calls of the outbound pipeline (a failing placeholder insert
\* is swallowed by the pipeline)
OutboundRepositoryCalls ==
    {"create_email", "find_matches", "create_match", "create_task_placeholder",
     "mark_email_processed"}

\* the mailbox: what get_inbox_messages and get_sent_messages list
InboxMessages == <<"m1", "m2">>
SentMessages == <<"s1">>

\* the inputs of the pipelines inside the runs of process_new_emails
RunInboundInputs ==
    LET none == <<>>
        auto == WithIds(<<Profile(100, 100, 50, 100)>>)
        down == ServiceFailure("error")
        invite == Classification("interview_invite", "positive", "valid", "absent", <<>>)
        assignment == Classification("assignment", "neutral", "absent", "null", <<>>)
        rejection == Classification("rejection", "negative", "absent", "absent", <<>>)
        undated == Classification("interview_invite", "neutral", "null", "absent", <<>>)
    IN {PipelineInput(Classified(invite), auto, down, "high", "none"),
        PipelineInput(Classified(invite), none, down, "none", "none"),
        PipelineInput(Classified(undated), none, down, "none", "none"),
        PipelineInput(Classified(assignment), auto, down, "low", "none"),
        PipelineInput(Classified(rejection), auto, down, "low", "none"),
        PipelineInput(Classified(rejection), none, down, "none", "none"),
        PipelineInput(Classified(rejection), auto, down, "high",
                      "mark_email_processed")}

RunOutboundInputs ==
    {PipelineInput(Classified(c), <<>>, ServiceFailure("error"), "none", f) :
        c \in {Classification("sent_availability", "neutral", "absent", "absent",
                              <<"valid">>)},
        f \in {"none", "create_email"}}

----------------------------------------------------------------------------
(* State *)

NoResult ==
    [best_match |-> NoCandidate, needs_review |-> TRUE, disambiguated |-> FALSE,
     candidates |-> <<>>, after |-> <<>>]

MatchCallRecord(phase, jobs, response, result) ==
    [phase |-> phase, jobs |-> jobs, response |-> response, result |-> result]

NoMatchCall == MatchCallRecord("none", <<>>, ServiceFailure("error"), NoResult)

NoInput ==
    PipelineInput(ClassifierFailure("api_error"),
                  <<>>, ServiceFailure("error"), "none", "none")

\* existing: what get_email_by_gmail_id gave the loop ("none", "unprocessed",
\* "processed", "error"); started: the pipeline was entered
PipelineRecord(phase, direction, gmail_id, existing, started, input, r) ==
    [phase |-> phase, direction |-> direction, gmail_id |-> gmail_id,
     existing |-> existing, started |-> started, input |-> input,
     raised |-> r.tables.raised, at |-> r.tables.at, email_id |-> r.email_id,
     effort_level |-> r.effort_level, needs_review |-> r.needs_review,
     routed |-> r.routed, routing |-> r.routing, matched |-> r.matched,
     classification |-> r.classification]

NoRun ==
    [tables |-> [raised |-> FALSE, at |-> "none"], matched |-> FALSE,
     email_id |-> 0, effort_level |-> "none", needs_review |-> FALSE,
     routed |-> FALSE, routing |-> NoRouting,
     classification |-> NoClassification]

NoPipeline == PipelineRecord("none", "none", "none", "none", FALSE, NoInput, NoRun)

\* a call of a scoring function: its name, its two arguments, its result
CallRecord(phase, fn, a, b, result) ==
    [phase |-> phase, fn |-> fn, a |-> a, b |-> b, result |-> result]

NoCall == CallRecord("none", "none", 0, 0, 0)

NewStats ==
    [inbox_processed |-> 0, sent_processed |-> 0, matched |-> 0,
     needs_review |-> 0, errors |-> 0]

EmptyTables ==
    /\ emails = <<>>
    /\ email_job_matches = <<>>
    /\ manual_review_queue = <<>>
    /\ response_analytics = <<>>
    /\ ticktick_tasks = <<>>

NotRunning ==
    /\ stats = NewStats
    /\ pc = "idle"
    /\ todo = <<>>
    /\ runs = 0

\* main before its loop: "stop_event = asyncio.Event()", "iteration = 0"
MainNotStarted ==
    /\ stop_event = FALSE
    /\ main_pc = "while"
    /\ shutdown_calls = 0

----------------------------------------------------------------------------
(* Actions *)

PipelineResult(direction, gmail_id, input) ==
    IF direction = "inbound"
    THEN _process_inbound_email(Tables, gmail_id, input.reply, input.jobs,
                                input.response, input.job_effort, input.fail)
    ELSE _process_outbound_email(Tables, gmail_id, input.reply, input.jobs,
                                 input.response, input.fail)

\* the tables as a pipeline leaves them, and the record of what it did
Commit(r, direction, gmail_id, existing, input) ==
    /\ emails' = r.tables.emails
    /\ email_job_matches' = r.tables.email_job_matches
    /\ manual_review_queue' = r.tables.manual_review_queue
    /\ response_analytics' = r.tables.response_analytics
    /\ ticktick_tasks' = r.tables.ticktick_tasks
    /\ lastMatch' = IF r.matched
                    THEN MatchCallRecord("done", input.jobs, input.response, r.match)
                    ELSE lastMatch
    /\ lastPipeline' = PipelineRecord("done", direction, gmail_id, existing, TRUE,
                                      input, r)

\* one call of match_email_to_job on the inputs drawn
MatchCall ==
    /\ lastMatch.phase = "pending"
    /\ lastMatch' = MatchCallRecord("done", lastMatch.jobs, lastMatch.response,
                        match_email_to_job(lastMatch.jobs, lastMatch.response))
    /\ UNCHANGED <<dbVars, runVars, lastPipeline, mainVars, lastCall>>

\* one call of a per-message pipeline on the inputs drawn, on empty tables
PipelineCall ==
    /\ lastPipeline.phase = "pending"
    /\ Commit(PipelineResult(lastPipeline.direction, lastPipeline.gmail_id,
                             lastPipeline.input),
              lastPipeline.direction, lastPipeline.gmail_id, "none",
              lastPipeline.input)
    /\ UNCHANGED <<runVars, mainVars, lastCall>>

\* db.get_email_by_gmail_id: fetchrow of a SELECT with no ORDER BY gives one of
\* the rows of that gmail_id, or None
NoRow == [gmail_id |-> "none", category |-> "none", processed |-> FALSE]

get_email_by_gmail_id(gmail_id) ==
    LET rows == {emails[i] : i \in {j \in DOMAIN emails : emails[j].gmail_id = gmail_id}}
    IN IF rows = {} THEN {NoRow} ELSE rows

\* a loop without the skip
NeverSkips(existing) == FALSE

\* "if existing and existing.processed: continue"
AlreadyProcessed(existing) == existing # NoRow /\ existing.processed

ExistingStatus(existing) ==
    IF existing = NoRow THEN "none"
    ELSE IF existing.processed THEN "processed" ELSE "unprocessed"

\* process_new_emails up to the first loop: fresh stats, the inbox is fetched
\* (get_messages returns [] on an HttpError)
FetchInbox ==
    /\ pc = "idle"
    /\ runs < MaxRuns
    /\ runs' = runs + 1
    /\ stats' = NewStats
    /\ pc' = "inbox"
    /\ \E fetched \in {InboxMessages, <<>>} : todo' = fetched
    /\ UNCHANGED <<dbVars, lastMatch, lastPipeline, lastCall>>

\* a call of process_new_emails by itself
StartRun ==
    /\ FetchInbox
    /\ UNCHANGED mainVars

\* a loop that counts every message as processed
CountsAllProcessed(counters, counter, raised) ==
    [counters EXCEPT ![counter] = @ + 1]

\* stats[counter] += 1 after the pipeline call, stats["errors"] += 1 in the
\* except branch
Counted(counters, counter, raised) ==
    IF raised THEN [counters EXCEPT !.errors = @ + 1]
    ELSE [counters EXCEPT ![counter] = @ + 1]

\* one iteration of a loop of process_new_emails over the message Head(todo)
LoopStep(direction, counter, inputs) ==
    /\ todo # <<>>
    /\ todo' = Tail(todo)
    /\ UNCHANGED <<pc, runs, mainVars, lastCall>>
    /\ \E lookup_raises \in BOOLEAN, existing \in get_email_by_gmail_id(Head(todo)) :
        IF lookup_raises
        THEN /\ stats' = [stats EXCEPT !.errors = @ + 1]
             /\ lastPipeline' = PipelineRecord("done", direction, Head(todo), "error",
                                               FALSE, NoInput, NoRun)
             /\ UNCHANGED <<dbVars, lastMatch>>
        ELSE IF AlreadyProcessed(existing)
        THEN /\ lastPipeline' = PipelineRecord("done", direction, Head(todo),
                                               ExistingStatus(existing), FALSE,
                                               NoInput, NoRun)
             /\ UNCHANGED <<dbVars, lastMatch, stats>>
        ELSE \E input \in inputs :
                \E r \in {PipelineResult(direction, Head(todo), input)} :
                /\ Commit(r, direction, Head(todo), ExistingStatus(existing), input)
                /\ stats' = Counted(stats, counter, r.tables.raised)

InboxStep ==
    /\ pc = "inbox"
    /\ LoopStep("inbound", "inbox_processed", RunInboundInputs)

\* the inbox loop is over: the sent folder is fetched
InboxDone ==
    /\ pc = "inbox"
    /\ todo = <<>>
    /\ pc' = "sent"
    /\ \E fetched \in {SentMessages, <<>>} : todo' = fetched
    /\ UNCHANGED <<dbVars, stats, runs, lastMatch, lastPipeline, mainVars,
                   lastCall>>

SentStep ==
    /\ pc = "sent"
    /\ LoopStep("outbound", "sent_processed", RunOutboundInputs)

\* process_new_emails returns stats
ReturnStats ==
    /\ pc = "sent"
    /\ todo = <<>>
    /\ pc' = "idle"
    /\ UNCHANGED <<dbVars, stats, todo, runs, lastMatch, lastPipeline,
                   lastCall>>

SentDone ==
    /\ ReturnStats
    /\ UNCHANGED mainVars

----------------------------------------------------------------------------
(* Specifications *)

\* the runs of process_new_emails, one after another, from empty tables
Init ==
    /\ EmptyTables
    /\ NotRunning
    /\ MainNotStarted
    /\ lastCall = NoCall
    /\ lastMatch = NoMatchCall
    /\ lastPipeline = NoPipeline

Next == StartRun \/ InboxStep \/ InboxDone \/ SentStep \/ SentDone

Spec == Init /\ [][Next]_vars

\* match_email_to_job and the two per-message pipelines, each applied once to
\* inputs drawn from the input sets
InitMatchCall ==
    /\ lastPipeline = NoPipeline
    /\ \E j \in JobLists, r \in Responses :
          lastMatch = MatchCallRecord("pending", j, r, NoResult)

InitPipelineCall ==
    /\ lastMatch = NoMatchCall
    /\ \/ \E c \in InboundReplies, jr \in PipelineMatchInputs,
             e \in EffortLevels, f \in RepositoryCalls \cup {"none"} :
             lastPipeline =
                 PipelineRecord("pending", "inbound", "m1", "none", FALSE,
                                PipelineInput(c, jr[1], jr[2], e, f), NoRun)
       \/ \E c \in OutboundReplies, jr \in PipelineMatchInputs,
             f \in OutboundRepositoryCalls \cup {"none"} :
             lastPipeline =
                 PipelineRecord("pending", "outbound", "s1", "none", FALSE,
                                PipelineInput(c, jr[1], jr[2], "none", f), NoRun)

InitDecision ==
    /\ EmptyTables
    /\ NotRunning
    /\ MainNotStarted
    /\ lastCall = NoCall
    /\ (InitMatchCall \/ InitPipelineCall)

NextDecision == MatchCall \/ PipelineCall

SpecDecision == InitDecision /\ [][NextDecision]_vars

----------------------------------------------------------------------------
(* The manual review: JobLinker.manual_link and reject_match, called by the
   review session of src/cli/review.py on the entries of the review queue *)

\* db.get_pending_reviews: "WHERE resolved = FALSE ORDER BY priority DESC,
\* created_at ASC", as the set of row ids and as the first row of that order
get_pending_reviews == {i \in DOMAIN manual_review_queue : ~manual_review_queue[i].resolved}

FirstPending(email_id) ==
    LET mine == {i \in get_pending_reviews : manual_review_queue[i].email_id = email_id}
    IN CHOOSE i \in mine :
          \A j \in mine :
              \/ manual_review_queue[i].priority > manual_review_queue[j].priority
              \/ /\ manual_review_queue[i].priority = manual_review_queue[j].priority
                 /\ i <= j

ManualRows == {i \in DOMAIN email_job_matches : email_job_matches[i].match_method = "manual"}

\* manual_link(email_id, job_id): the reviewer picks a pending entry and one of
\* the candidates of get_match_candidates; create_match inserts a row with
\* score 1.0, method manual, needs_review false
manual_link ==
    /\ lastPipeline.phase = "done"
    /\ Cardinality(ManualRows) < MaxLinks
    /\ \E review \in get_pending_reviews,
          job_id \in JobIdsOf(find_matches(lastPipeline.input.jobs)) :
          email_job_matches' =
              Append(email_job_matches,
                     [email_id |-> manual_review_queue[review].email_id,
                      job_id |-> job_id, match_score |-> SCALE,
                      match_method |-> "manual", needs_review |-> FALSE])
    /\ UNCHANGED <<emails, manual_review_queue, response_analytics, ticktick_tasks,
                   runVars, lastMatch, lastPipeline, mainVars, lastCall>>

\* reject_match(email_id): the first pending entry of the message is resolved
\* with resolution_action no_job_link; no row of email_job_matches is touched
reject_match ==
    /\ lastPipeline.phase = "done"
    /\ \E review \in get_pending_reviews :
          manual_review_queue' =
              [manual_review_queue EXCEPT
                  ![FirstPending(manual_review_queue[review].email_id)].resolved = TRUE]
    /\ UNCHANGED <<emails, email_job_matches, response_analytics, ticktick_tasks,
                   runVars, lastMatch, lastPipeline, mainVars, lastCall>>

\* the messages of the review session: a rejection, an interview invitation,
\* an assignment and a message the classifier could not classify, over every
\* matcher input
ReviewInputs ==
    {PipelineInput(c, jr[1], jr[2], "high", "none") :
        c \in {Classified(Classification("rejection", "negative", "absent",
                                          "absent", <<>>)),
               Classified(Classification("interview_invite", "positive", "valid",
                                          "absent", <<>>)),
               Classified(Classification("assignment", "neutral", "absent",
                                          "valid", <<>>)),
               ClassifierFailure("api_error")},
        jr \in PipelineMatchInputs}

InitReview ==
    /\ EmptyTables
    /\ NotRunning
    /\ MainNotStarted
    /\ lastCall = NoCall
    /\ lastMatch = NoMatchCall
    /\ \E input \in ReviewInputs :
          lastPipeline = PipelineRecord("pending", "inbound", "m1", "none", FALSE,
                                        input, NoRun)

NextReview == PipelineCall \/ manual_link \/ reject_match

\* one inbound pipeline, then the calls of a review session
SpecReview == InitReview /\ [][NextReview]_vars

----------------------------------------------------------------------------
(* The scoring functions of the matcher, each applied once to arguments drawn
   from the input sets *)

Strings(alphabet, n) == UNION {[1..k -> alphabet] : k \in 0..n}

\* applied_at of a job row and received_at of a message
Timestamps == 0..MaxTick

\* company names, position titles and message texts
Texts == Strings({"a", "A", "b"}, MaxLen)

\* sender addresses (None: the message has no sender) and company_domain
\* values of a job row (None: the column is NULL)
SenderAddresses == Strings({"a", "b", "@"}, MaxLen + 1) \cup {None}
CompanyDomains == Strings({"a", "b", "B"}, MaxLen - 1) \cup {None}

InitScore ==
    /\ EmptyTables
    /\ NotRunning
    /\ MainNotStarted
    /\ lastMatch = NoMatchCall
    /\ lastPipeline = NoPipeline
    /\ \/ \E a \in Timestamps, b \in Timestamps :
             lastCall = CallRecord("pending", "_timeline_score", a, b, 0)
       \/ \E a \in Texts, b \in Texts :
             lastCall = CallRecord("pending", "_fuzzy_match_score", a, b, 0)
       \/ \E a \in SenderAddresses, b \in CompanyDomains :
             lastCall = CallRecord("pending", "domain_match", a, b, 0)

Returns(result) ==
    /\ lastCall' = [lastCall EXCEPT !.phase = "done", !.result = result]
    /\ UNCHANGED <<dbVars, runVars, lastMatch, lastPipeline, mainVars>>

TimelineCall ==
    /\ lastCall.phase = "pending"
    /\ lastCall.fn = "_timeline_score"
    /\ Returns(_timeline_score(lastCall.a, lastCall.b))

FuzzyCall ==
    /\ lastCall.phase = "pending"
    /\ lastCall.fn = "_fuzzy_match_score"
    /\ Returns(_fuzzy_match_score(lastCall.a, lastCall.b))

DomainCall ==
    /\ lastCall.phase = "pending"
    /\ lastCall.fn = "domain_match"
    /\ Returns(domain_match(lastCall.a, lastCall.b))

NextScore == TimelineCall \/ FuzzyCall \/ DomainCall

SpecScore == InitScore /\ [][NextScore]_vars

----------------------------------------------------------------------------
(* main: the poll loop, the TickTick sync pass and the shutdown *)

\* db.get_unsynced_tasks: the rows with synced = FALSE, by id (the tables of
\* the model stay below the LIMIT of 50)
get_unsynced_tasks == {i \in DOMAIN ticktick_tasks : ~ticktick_tasks[i].synced}

\* the values of the enum TaskPriority
TaskPriority == {0, 1, 3, 5}

\* "priority=TaskPriority(task.priority)" raises ValueError: the submission of
\* this task fails whatever the collaborator does
NeverSubmits(task) ==
    ~task.is_calendar_event /\ task.priority \notin TaskPriority

\* db.mark_task_synced: "SET synced = TRUE, ticktick_task_id = $2,
\* sync_error = $3", with error None or str(e)
mark_task_synced(task, error) ==
    [task EXCEPT !.synced = TRUE, !.sync_error = error]

\* sync_ticktick_tasks: every task of the unsynced list is submitted once, in
\* order; the collaborator accepts it or raises, and either way the task is
\* marked
sync_ticktick_tasks ==
    /\ main_pc = "sync"
    /\ main_pc' = "wait"
    /\ \E failing \in SUBSET get_unsynced_tasks :
          /\ \A i \in get_unsynced_tasks :
                NeverSubmits(ticktick_tasks[i]) => i \in failing
          /\ ticktick_tasks' =
                [i \in DOMAIN ticktick_tasks |->
                    IF i \in get_unsynced_tasks
                    THEN mark_task_synced(ticktick_tasks[i], i \in failing)
                    ELSE ticktick_tasks[i]]
    /\ UNCHANGED <<emails, email_job_matches, manual_review_queue,
                   response_analytics, runVars, lastMatch, lastPipeline,
                   stop_event, shutdown_calls, lastCall>>

\* SIGINT or SIGTERM: "stop_event.set()"
signal_handler ==
    /\ main_pc # "returned"
    /\ ~stop_event
    /\ stop_event' = TRUE
    /\ UNCHANGED <<dbVars, runVars, lastMatch, lastPipeline, main_pc,
                   shutdown_calls, lastCall>>

\* "while not stop_event.is_set()" holds: the iteration calls
\* process_new_emails
Iterate ==
    /\ main_pc = "while"
    /\ ~stop_event
    /\ FetchInbox
    /\ main_pc' = "process"
    /\ UNCHANGED <<stop_event, shutdown_calls>>

\* process_new_emails returns to the iteration, which goes on to the sync
ProcessDone ==
    /\ main_pc = "process"
    /\ ReturnStats
    /\ main_pc' = "sync"
    /\ UNCHANGED <<stop_event, shutdown_calls>>

\* the end of the iteration: the wait for the stop event or the poll interval,
\* skipped when the stop event is set
Sleep ==
    /\ main_pc = "wait"
    /\ main_pc' = "while"
    /\ UNCHANGED <<dbVars, runVars, lastMatch, lastPipeline, stop_event,
                   shutdown_calls, lastCall>>

\* "while not stop_event.is_set()" fails
LoopExit ==
    /\ main_pc = "while"
    /\ stop_event
    /\ main_pc' = "finally"
    /\ UNCHANGED <<dbVars, runVars, lastMatch, lastPipeline, stop_event,
                   shutdown_calls, lastCall>>

\* the finally block: "await processor.shutdown()"
Shutdown ==
    /\ main_pc = "finally"
    /\ shutdown_calls' = shutdown_calls + 1
    /\ main_pc' = "returned"
    /\ UNCHANGED <<dbVars, runVars, lastMatch, lastPipeline, stop_event,
                   lastCall>>

NextMain ==
    \/ signal_handler
    \/ Iterate
    \/ InboxStep
    \/ InboxDone
    \/ SentStep
    \/ ProcessDone
    \/ sync_ticktick_tasks
    \/ Sleep
    \/ LoopExit
    \/ Shutdown

\* main from its start, MaxRuns iterations at most
SpecMain == Init /\ [][NextMain]_vars

----------------------------------------------------------------------------
(* Properties of the runs of process_new_emails (specification Spec) *)

\* a step of one of the two loops over the message Head(todo)
LoopStepTaken ==
    /\ pc \in {"inbox", "sent"}
    /\ todo # <<>>
    /\ todo' = Tail(todo)

\* C1: when the record that the lookup by gmail_id returns is marked processed,
\* the loop does not start the message's pipeline: no table changes (no new
\* review-queue entry, match record, analytics record or task) and the
\* message is counted neither in inbox_processed nor in sent_processed.
SkipOfProcessed ==
    [][ (LoopStepTaken /\ lastPipeline'.existing = "processed")
        => /\ ~lastPipeline'.started
           /\ UNCHANGED dbVars
           /\ stats'.inbox_processed = stats.inbox_processed
           /\ stats'.sent_processed = stats.sent_processed ]_vars

\* a later run has met a message whose record is marked processed
SkipOfProcessedSeen ==
    /\ runs = MaxRuns
    /\ lastPipeline.phase = "done"
    /\ lastPipeline.existing = "processed"
    /\ lastPipeline.gmail_id = "m1"
    /\ \E i \in DOMAIN emails : emails[i].gmail_id = "m1" /\ emails[i].processed

\* the rows of a table that belong to the message gmail_id
EmailIdsOf(gmail_id) == {i \in DOMAIN emails : emails[i].gmail_id = gmail_id}

RowsOf(table, gmail_id) ==
    {i \in DOMAIN table : table[i].email_id \in EmailIdsOf(gmail_id)}

\* C2: over any sequence of runs, each side effect of _process_inbound_email
\* (stored email record, review-queue entry, analytics record, each kind of
\* task) exists at most once per inbound gmail_id.
InboundAtMostOnce ==
    \A g \in {InboxMessages[k] : k \in DOMAIN InboxMessages} :
        /\ Cardinality(EmailIdsOf(g)) <= 1
        /\ Cardinality(RowsOf(manual_review_queue, g)) <= 1
        /\ Cardinality(RowsOf(response_analytics, g)) <= 1
        /\ \A i, j \in RowsOf(ticktick_tasks, g) :
              ( /\ ticktick_tasks[i].project = ticktick_tasks[j].project
                /\ ticktick_tasks[i].is_calendar_event
                       = ticktick_tasks[j].is_calendar_event )
              => i = j

----------------------------------------------------------------------------
(* Properties of one match_email_to_job call and of one pipeline            *)
(* (specification SpecDecision)                                            *)

MatchDone == lastMatch.phase = "done"

\* C3: a decision of match_email_to_job, and a persisted match record (of an
\* inbound or of an outbound message), with needs_review = false has a score
\* of at least auto_match_threshold.
NoReviewImpliesAutoScore ==
    /\ (MatchDone /\ ~lastMatch.result.needs_review)
          => lastMatch.result.best_match.match_score >= auto_match_threshold
    /\ \A i \in DOMAIN email_job_matches :
          ~email_job_matches[i].needs_review
             => email_job_matches[i].match_score >= auto_match_threshold

\* the gap between the two best candidates of the list is below 0.15
GapInBand(candidates) ==
    /\ Len(candidates) >= 2
    /\ Abs(candidates[1].match_score - candidates[2].match_score) < Pct(15)

\* C4 as stated: the disambiguator is invoked exactly when there are at least
\* two candidates and the gap of the top two is below 0.15, whatever the top
\* score.
InvokedExactlyInBand ==
    MatchDone =>
        (lastMatch.result.disambiguated <=> GapInBand(lastMatch.result.candidates))

\* C4 amended: the disambiguator is invoked exactly when there are at least
\* two candidates, the top score is below auto_match_threshold and the gap of
\* the top two is below 0.15.
InvokedExactlyInBandBelowAuto ==
    MatchDone =>
        (lastMatch.result.disambiguated
            <=> /\ GapInBand(lastMatch.result.candidates)
                /\ lastMatch.result.candidates[1].match_score < Pct(85))

\* a call with three candidates that went to the disambiguator
InvokedInBandSeen ==
    /\ MatchDone
    /\ lastMatch.result.disambiguated
    /\ Len(lastMatch.result.candidates) = 3
    /\ GapInBand(lastMatch.result.candidates)


\* C5: match_email_to_job returns one decision for every candidate list and
\* every outcome of the disambiguation: (None, needs_review) when the list is
\* empty, otherwise a candidate of the list, with needs_review = false
\* exactly when the returned score is at least auto_match_threshold; a
\* candidate below review_threshold is returned, not discarded.
DecisionIsTotal ==
    MatchDone =>
        LET r == lastMatch.result IN
        IF r.candidates = <<>>
        THEN r.best_match = NoCandidate /\ r.needs_review
        ELSE /\ r.best_match # NoCandidate
             /\ r.best_match.job_id \in JobIdsOf(r.candidates)
             /\ r.needs_review <=> (r.best_match.match_score < Pct(85))

\* a decision that returns a candidate below review_threshold after a failed
\* disambiguation
WeakCandidateReturned ==
    /\ MatchDone
    /\ lastMatch.result.disambiguated
    /\ lastMatch.response.kind = "error"
    /\ lastMatch.result.best_match # NoCandidate
    /\ lastMatch.result.best_match.match_score < Pct(50)
    /\ lastMatch.result.needs_review

\* the ranking service failed, or named an id that is no candidate's
ServiceGaveNoCandidate ==
    \/ lastMatch.response.kind # "answer"
    \/ lastMatch.response.best \notin JobIdsOf(lastMatch.result.candidates)

\* C6: when the ranking call fails or names an id that matches no candidate,
\* disambiguate_with_ai returns candidates[0], and leaves every candidate's
\* score and signals as they were.
FallbackToTop ==
    (MatchDone /\ lastMatch.result.disambiguated /\ ServiceGaveNoCandidate)
        => /\ lastMatch.result.best_match = lastMatch.result.candidates[1]
           /\ lastMatch.result.after = lastMatch.result.candidates

\* a disambiguation whose answer named an unknown id
FallbackSeen ==
    /\ MatchDone
    /\ lastMatch.result.disambiguated
    /\ lastMatch.response.kind = "answer"
    /\ lastMatch.response.best = UnknownJobId
    /\ lastMatch.result.best_match = lastMatch.result.candidates[1]

\* the answer of the ranking service named the id of one of the candidates
ServiceNamedCandidate ==
    /\ MatchDone
    /\ lastMatch.result.disambiguated
    /\ lastMatch.response.kind = "answer"
    /\ lastMatch.response.best \in JobIdsOf(lastMatch.result.candidates)

\* the candidate the service named, as it was before the call
NamedCandidate ==
    LET cs == lastMatch.result.candidates IN
    cs[CHOOSE i \in DOMAIN cs : cs[i].job_id = lastMatch.response.best]

\* max(original score, returned confidence), the original score when no
\* confidence is returned
ExpectedScore ==
    IF lastMatch.response.conf.kind = "number"
          /\ lastMatch.response.conf.val > NamedCandidate.match_score
    THEN lastMatch.response.conf.val
    ELSE NamedCandidate.match_score

ReturnsNamedCandidate ==
    /\ lastMatch.result.best_match.job_id = lastMatch.response.best
    /\ lastMatch.result.best_match.match_score = ExpectedScore

\* disambiguation lowers no score, changes the score of no candidate other
\* than the one returned, and returns a member of the candidate list
DisambiguationKeepsScores ==
    (MatchDone /\ lastMatch.result.disambiguated) =>
        LET r == lastMatch.result IN
        /\ Len(r.after) = Len(r.candidates)
        /\ \A i \in DOMAIN r.candidates :
              /\ r.after[i].job_id = r.candidates[i].job_id
              /\ r.after[i].match_score >= r.candidates[i].match_score
              /\ r.after[i].job_id # r.best_match.job_id
                    => r.after[i].match_score = r.candidates[i].match_score
        /\ \E i \in DOMAIN r.after : r.after[i] = r.best_match

\* C7 as stated: whenever the returned id is the id of a candidate, that
\* candidate is returned with score max(original, confidence); no score is
\* lowered, no other score changes, a member of the list is returned.
ReconciliationOnMatchingId ==
    /\ ServiceNamedCandidate => ReturnsNamedCandidate
    /\ DisambiguationKeepsScores

\* C7 amended: whenever the returned id is the id of a candidate and the
\* returned confidence is a number or is absent, that candidate is returned
\* with score max(original, confidence); with any other confidence value the
\* top candidate is returned unchanged; in every case no score is lowered, no
\* other score changes and a member of the list is returned.
ReconciliationOnNumericConfidence ==
    /\ (ServiceNamedCandidate /\ lastMatch.response.conf.kind # "other")
          => ReturnsNamedCandidate
    /\ (ServiceNamedCandidate /\ lastMatch.response.conf.kind = "other")
          => /\ lastMatch.result.best_match = lastMatch.result.candidates[1]
             /\ lastMatch.result.after = lastMatch.result.candidates
    /\ DisambiguationKeepsScores

\* the service named the second candidate with a confidence above its score
ReconciliationSeen ==
    /\ ServiceNamedCandidate
    /\ lastMatch.response.best = lastMatch.result.candidates[2].job_id
    /\ lastMatch.response.conf.kind = "number"
    /\ lastMatch.result.best_match.match_score = lastMatch.response.conf.val
    /\ lastMatch.result.best_match.match_score
          > lastMatch.result.candidates[2].match_score

InUnit(x) == 0 <= x /\ x <= SCALE

\* C8: every sub-score, every candidate's aggregate score and the score of
\* every decision of match_email_to_job lies in [0, 1], also after
\* disambiguation.
ScoresInUnitInterval ==
    MatchDone =>
        /\ \A i \in DOMAIN lastMatch.jobs :
              /\ InUnit(lastMatch.jobs[i].company_score)
              /\ InUnit(lastMatch.jobs[i].domain_score)
              /\ InUnit(lastMatch.jobs[i].position_score)
              /\ InUnit(lastMatch.jobs[i].timeline_score)
        /\ \A i \in DOMAIN lastMatch.result.candidates :
              InUnit(lastMatch.result.candidates[i].match_score)
        /\ \A i \in DOMAIN lastMatch.result.after :
              InUnit(lastMatch.result.after[i].match_score)
        /\ InUnit(lastMatch.result.best_match.match_score)

\* an inbound pipeline has run on the message drawn
InboundDone ==
    /\ lastPipeline.phase = "done"
    /\ lastPipeline.started
    /\ lastPipeline.direction = "inbound"

\* the message is a rejection and the effort level the pipeline holds (that
\* of the matched job, None without a match) is not high
LowEffortRejection ==
    /\ InboundDone
    /\ lastPipeline.classification.category = "rejection"
    /\ lastPipeline.effort_level # "high"

QuadrantTasks ==
    {i \in DOMAIN ticktick_tasks :
        ticktick_tasks[i].project \in {"q1", "q2", "q3", "q4"}}

\* the pipeline got as far as the analytics record of step 5
AnalyticsStepPassed ==
    \/ ~lastPipeline.raised
    \/ lastPipeline.at \in {"get_company_rejection_count", "route_calendar",
                            "route_quadrant", "route_work", "mark_email_processed"}

Extracted(d) == d \notin {"absent", "null"}

\* the decision table of the routing: quadrant, base priority, calendar flag
\* and reminders of the first row that matches
TableRow(category, effort_level, has_date, has_deadline) ==
    IF category \in {"interview_invite", "offer"}
    THEN [quadrant |-> "q1", priority |-> 5, calendar |-> has_date,
          reminders |-> IF has_date THEN <<"-1d", "-1h", "-15m">> ELSE <<"-1d">>]
    ELSE IF category = "assignment"
    THEN [quadrant |-> "q2", priority |-> 4, calendar |-> has_deadline,
          reminders |-> IF has_deadline THEN <<"-1d", "-3h">> ELSE <<>>]
    ELSE IF category = "follow_up_needed"
    THEN [quadrant |-> "q2", priority |-> 3, calendar |-> FALSE,
          reminders |-> <<"-1d">>]
    ELSE IF category = "rejection" /\ effort_level = "high"
    THEN [quadrant |-> "q2", priority |-> 2, calendar |-> FALSE, reminders |-> <<>>]
    ELSE IF category = "rejection"
    THEN [quadrant |-> "q4", priority |-> 1, calendar |-> FALSE, reminders |-> <<>>]
    ELSE IF category = "info"
    THEN [quadrant |-> "q3", priority |-> 2, calendar |-> FALSE, reminders |-> <<>>]
    ELSE [quadrant |-> "q3", priority |-> 3, calendar |-> FALSE, reminders |-> <<>>]

\* C10: the routing decision of a routed message has the quadrant, calendar
\* flag, countdown flag (equal to the calendar flag) and reminders of the
\* first matching row of the table, and the row's base priority (raised by
\* one, up to 5, for a positive sentiment).
RoutingFollowsTable ==
    (InboundDone /\ lastPipeline.routed) =>
        LET c == lastPipeline.classification
            row == TableRow(c.category, lastPipeline.effort_level,
                            Extracted(c.interview_date), Extracted(c.deadline))
            d == lastPipeline.routing
        IN /\ d.quadrant = row.quadrant
           /\ d.create_calendar_event = row.calendar
           /\ d.enable_countdown = row.calendar
           /\ d.reminders = row.reminders
           /\ d.priority = IF c.sentiment = "positive" /\ row.priority < 5
                           THEN row.priority + 1 ELSE row.priority

\* a routed assignment with an extracted deadline
RoutingOfAssignmentSeen ==
    /\ InboundDone
    /\ lastPipeline.routed
    /\ lastPipeline.classification.category = "assignment"
    /\ lastPipeline.classification.deadline = "valid"
    /\ lastPipeline.classification.sentiment = "neutral"
    /\ lastPipeline.routing.create_calendar_event
    /\ lastPipeline.routing.priority = 4

Min(a, b) == IF a < b THEN a ELSE b

\* C11: the final priority of a routing decision is min(5, base priority + 1)
\* for a positive sentiment and the base priority otherwise, it lies in 0..5,
\* and the tags are the category name followed by exactly one sentiment tag.
PriorityPostProcessing ==
    (InboundDone /\ lastPipeline.routed) =>
        LET c == lastPipeline.classification
            base == TableRow(c.category, lastPipeline.effort_level,
                             Extracted(c.interview_date),
                             Extracted(c.deadline)).priority
            d == lastPipeline.routing
        IN /\ d.priority = IF c.sentiment = "positive" THEN Min(5, base + 1)
                           ELSE base
           /\ d.priority \in 0..5
           /\ Len(d.tags) = 2
           /\ d.tags[1] = c.category
           /\ d.tags[2] \in {"positive", "negative", "neutral"}
           /\ d.tags[2] = c.sentiment

\* a positive interview invitation, whose base priority is already 5
PositiveAtCapSeen ==
    /\ InboundDone
    /\ lastPipeline.routed
    /\ lastPipeline.classification.category = "interview_invite"
    /\ lastPipeline.classification.sentiment = "positive"
    /\ lastPipeline.routing.priority = 5
    /\ lastPipeline.routing.tags = <<"interview_invite", "positive">>

\* a pipeline (inbound or outbound) has run on the message drawn
PipelineRan ==
    /\ lastPipeline.phase = "done"
    /\ lastPipeline.started

\* C12: when the classification call fails or its reply cannot be parsed or
\* validated, classify returns category unknown, sentiment neutral,
\* confidence 0 and empty extracted data, and does not raise: the pipeline
\* goes on and stores the message under that classification.
ClassifierFallback ==
    (PipelineRan /\ lastPipeline.input.reply.kind # "ok") =>
        /\ lastPipeline.classification.category = "unknown"
        /\ lastPipeline.classification.sentiment = "neutral"
        /\ lastPipeline.classification.confidence = 0
        /\ lastPipeline.classification.interview_date = "absent"
        /\ lastPipeline.classification.deadline = "absent"
        /\ lastPipeline.classification.proposed_times = <<>>
        /\ lastPipeline.at # "create_email"
              => /\ Len(emails) = 1
                 /\ emails[1].category = "unknown"

\* a reply with a confidence outside [0, 1], and the pipeline completed
ClassifierFallbackSeen ==
    /\ PipelineRan
    /\ lastPipeline.input.reply.kind = "bad_confidence"
    /\ lastPipeline.classification.category = "unknown"
    /\ ~lastPipeline.raised
    /\ Len(emails) = 1

----------------------------------------------------------------------------
(* Further properties of the runs of process_new_emails (specification Spec) *)

\* C13: when the pipeline of a fetched message raises, errors grows by
\* exactly one and no other counter moves; while fetched messages remain,
\* the only step of the run is the attempt of the next one, so the rest of
\* the inbox and then the sent folder are still attempted, and the run
\* returns its statistics only when both lists are exhausted.
FailureDoesNotAbortBatch ==
    [][ /\ (LoopStepTaken /\ lastPipeline'.started /\ lastPipeline'.raised)
            => /\ stats'.errors = stats.errors + 1
               /\ stats'.inbox_processed = stats.inbox_processed
               /\ stats'.sent_processed = stats.sent_processed
        /\ todo # <<>>
            => /\ todo' = Tail(todo)
               /\ pc' = pc
               /\ lastPipeline'.gmail_id = Head(todo)
        /\ pc' = "idle" => (pc = "sent" /\ todo = <<>>) ]_vars

\* in one run the pipeline of m1 raised, m2 and the sent message were
\* processed after it, and the run returned
BatchWentOnSeen ==
    /\ runs = 1
    /\ pc = "idle"
    /\ stats.errors = 1
    /\ stats.inbox_processed = 1
    /\ stats.sent_processed = 1
    /\ Len(emails) = 3
    /\ emails[1].gmail_id = "m1" /\ ~emails[1].processed
    /\ emails[2].gmail_id = "m2" /\ emails[2].processed

\* the loop has just dealt with an inbound message
InboundVisited ==
    /\ lastPipeline.phase = "done"
    /\ lastPipeline.direction = "inbound"

MarkedProcessed(gmail_id) ==
    \E i \in EmailIdsOf(gmail_id) : emails[i].processed

PendingReview(gmail_id) ==
    \E i \in RowsOf(manual_review_queue, gmail_id) : ~manual_review_queue[i].resolved

CountedAsError == lastPipeline.raised \/ lastPipeline.existing = "error"

\* the three end states of the message the loop has just dealt with
EndProcessed ==
    MarkedProcessed(lastPipeline.gmail_id) /\ ~PendingReview(lastPipeline.gmail_id)

EndNeedsReview == PendingReview(lastPipeline.gmail_id)

EndErrored == CountedAsError /\ ~MarkedProcessed(lastPipeline.gmail_id)

\* C14: a fetched inbound message is left in exactly one of the end states
\* processed, needs-review, errored-retained-for-next-run.
ExactlyOneEndState ==
    InboundVisited =>
        /\ EndProcessed \/ EndNeedsReview \/ EndErrored
        /\ ~(EndProcessed /\ EndNeedsReview)
        /\ ~(EndProcessed /\ EndErrored)
        /\ ~(EndNeedsReview /\ EndErrored)

----------------------------------------------------------------------------
(* Further properties of one pipeline (specification SpecDecision) *)

\* the classification is low-confidence (the fallback of classify has
\* confidence 0), or the matcher asked for review (no candidate, a weak one,
\* an ambiguity the disambiguator did not settle)
SoftSignalFailure ==
    \/ lastPipeline.classification.confidence < 50
    \/ lastPipeline.matched /\ lastMatch.result.needs_review

\* C15: an inbound message with a low-confidence classification, or with an
\* ambiguous, weak or absent match, ends with an entry in the manual review
\* queue and without an exception (no repository call failing).
SoftFailuresEndInReview ==
    (InboundDone /\ lastPipeline.input.fail = "none" /\ SoftSignalFailure)
        => /\ ~lastPipeline.raised
           /\ Len(manual_review_queue) = 1

\* the classifier fell back to unknown with confidence 0, the match was
\* automatic, and the message was marked processed with no review entry
FallbackNotReviewed ==
    /\ InboundDone
    /\ lastPipeline.input.fail = "none"
    /\ lastPipeline.input.reply.kind # "ok"
    /\ ~lastPipeline.raised
    /\ emails[1].processed
    /\ manual_review_queue = <<>>

\* the kind of a task row: the calendar event, the work-list task (project
\* work), the quadrant task
TaskKind(task) ==
    IF task.is_calendar_event THEN "calendar"
    ELSE IF task.project = "work" THEN "work_list" ELSE "quadrant"

TaskKinds == [i \in DOMAIN ticktick_tasks |-> TaskKind(ticktick_tasks[i])]

\* the inbound pipeline called route_email, and no repository call fails
RouteEmailCalled ==
    /\ InboundDone
    /\ lastPipeline.routed
    /\ lastPipeline.input.fail = "none"

\* C18: route_email creates at most three tasks, in the order calendar event,
\* quadrant task, work-list task; the calendar event exactly when the routing
\* decision has create_calendar_event, the work-list task exactly when the
\* category is interview_invite, assignment or follow_up_needed.
MaterializedInOrder ==
    RouteEmailCalled =>
        \E quadrant \in {<<>>, <<"quadrant">>} :
            TaskKinds =
                (IF lastPipeline.routing.create_calendar_event
                 THEN <<"calendar">> ELSE <<>>)
                \o quadrant
                \o (IF lastPipeline.classification.category \in WorkCategories
                    THEN <<"work_list">> ELSE <<>>)

\* the inbound pipeline asked the matcher, holds needs_review, and no
\* repository call fails
ReviewAsked ==
    /\ InboundDone
    /\ lastPipeline.matched
    /\ lastPipeline.needs_review
    /\ lastPipeline.input.fail = "none"

\* the reason the match alone gives
MatchReason ==
    IF lastMatch.result.best_match = NoCandidate
    THEN "no_match_found" ELSE "low_confidence_match"

\* C19 as stated: whatever the category, the review-queue entry of an
\* unmatched message has reason no_match_found and that of a message matched
\* with needs_review has reason low_confidence_match.
ReasonForEveryCategory ==
    ReviewAsked =>
        /\ Len(manual_review_queue) = 1
        /\ manual_review_queue[1].reason = MatchReason

\* C19: for every category but unknown, the review-queue entry of an unmatched
\* message has reason no_match_found and that of a message matched with
\* needs_review has reason low_confidence_match; for the category unknown the
\* reason is ambiguous_category in both cases.
ReasonUnlessUnknown ==
    ReviewAsked =>
        /\ Len(manual_review_queue) = 1
        /\ manual_review_queue[1].reason =
              IF lastPipeline.classification.category = "unknown"
              THEN "ambiguous_category" ELSE MatchReason

\* a message of a known category was matched with needs_review and queued with
\* reason low_confidence_match
LowConfidenceReasonSeen ==
    /\ ReviewAsked
    /\ lastMatch.result.best_match # NoCandidate
    /\ lastPipeline.classification.category = "rejection"
    /\ Len(manual_review_queue) = 1
    /\ manual_review_queue[1].reason = "low_confidence_match"

\* the places of the job rows that find_matches keeps. The rows come from
\* get_recent_job_applications "ORDER BY applied_at DESC": the row in place 1
\* is the most recently applied one, and the id of a row is its place.
KeptPlaces(jobs) == {i \in DOMAIN jobs : total_score(jobs[i]) > NOISE_FLOOR}

\* C24: the candidates of find_matches are exactly the job rows whose
\* aggregate score is strictly above 0.1, each once and with that score, in
\* descending order of score, and of two candidates with the same score the
\* more recently applied one (the earlier row of the query) comes first.
CandidateListOrdered ==
    MatchDone =>
        LET jobs == lastMatch.jobs
            cs == lastMatch.result.candidates
        IN /\ Len(cs) = Cardinality(KeptPlaces(jobs))
           /\ JobIdsOf(cs) = KeptPlaces(jobs)
           /\ \A i \in DOMAIN cs :
                 cs[i].match_score = total_score(jobs[cs[i].job_id])
           /\ \A i \in DOMAIN cs : \A j \in DOMAIN cs :
                 i < j => \/ cs[i].match_score > cs[j].match_score
                          \/ /\ cs[i].match_score = cs[j].match_score
                             /\ cs[i].job_id < cs[j].job_id

\* three job rows: the first dropped at exactly 0.1, the two others kept with
\* the same score
TieAndDropSeen ==
    /\ MatchDone
    /\ Len(lastMatch.jobs) = 3
    /\ total_score(lastMatch.jobs[1]) = NOISE_FLOOR
    /\ Len(lastMatch.result.candidates) = 2
    /\ lastMatch.result.candidates[1].match_score
          = lastMatch.result.candidates[2].match_score
    /\ lastMatch.result.candidates[1].job_id = 2

----------------------------------------------------------------------------
(* Properties of the manual review (specification SpecReview) *)

\* the match decisions in force for a message: the rows of email_job_matches
\* with its email_id (no column marks a row as superseded)
ActiveDecisions(email_id) ==
    {i \in DOMAIN email_job_matches : email_job_matches[i].email_id = email_id}

\* C20: after the pipeline and any calls of manual_link and reject_match, a
\* message has at most one match decision in force.
AtMostOneActiveDecision ==
    \A email_id \in DOMAIN emails : Cardinality(ActiveDecisions(email_id)) <= 1

----------------------------------------------------------------------------
(* Properties of main (specification SpecMain) *)

\* C16: a task whose submission failed in a pass of sync_ticktick_tasks
\* carries the reason and is selected again by get_unsynced_tasks, so that a
\* later pass submits it again.
FailedTaskSelectedAgain ==
    \A i \in DOMAIN ticktick_tasks :
        ticktick_tasks[i].sync_error => i \in get_unsynced_tasks

\* C17: once the stop event is set, the loops of process_new_emails start no
\* pipeline for a further message.
NoPipelineStartedAfterStop ==
    [][ (stop_event /\ LoopStepTaken) => ~lastPipeline'.started ]_vars

\* C29: every priority that route_email stores on a task is accepted by the
\* conversion TaskPriority(priority) of the sync pass, so that a task the
\* TickTick client accepts ends the pass synced without a sync error.
EveryTaskPriorityConverts ==
    \A i \in DOMAIN ticktick_tasks :
        /\ ~ticktick_tasks[i].is_calendar_event
              => ticktick_tasks[i].priority \in TaskPriority
        /\ ~NeverSubmits(ticktick_tasks[i])

\* the pipeline of the last message raised inside route_email
RoutingRaised ==
    /\ lastPipeline.phase = "done"
    /\ lastPipeline.started
    /\ lastPipeline.raised
    /\ lastPipeline.at \in {"route_calendar", "route_quadrant", "route_work"}

TasksOf(email_id) ==
    {i \in DOMAIN ticktick_tasks : ticktick_tasks[i].email_id = email_id}

\* C25: when a task-creation step of route_email raises, no task of that
\* message is in ticktick_tasks, so none can be submitted by
\* sync_ticktick_tasks.
MaterializationAllOrNothing ==
    RoutingRaised => TasksOf(lastPipeline.email_id) = {}

----------------------------------------------------------------------------
(* The order of the steps of one inbound pipeline (specification
   SpecDecision) *)

\* the number of the step of _process_inbound_email in which a call raised
\* (1 classify, which never raises, 2 store, 3 match, 4 review queue,
\* 5 analytics, 6 routing, 7 mark processed); 8 when nothing raised
StepReached ==
    IF ~lastPipeline.raised THEN 8
    ELSE IF lastPipeline.at = "create_email" THEN 2
    ELSE IF lastPipeline.at \in {"find_matches", "create_match"} THEN 3
    ELSE IF lastPipeline.at = "add_to_review_queue" THEN 4
    ELSE IF lastPipeline.at \in {"record_response", "get_company_rejection_count"}
         THEN 5
    ELSE IF lastPipeline.at \in {"route_calendar", "route_quadrant", "route_work"}
         THEN 6
    ELSE 7

ManualLinkResolvesReview ==
    \A i \in ManualRows :
        \A r \in get_pending_reviews :
            manual_review_queue[r].email_id # email_job_matches[i].email_id

\* the categories that are routed even when the message needs review
AlwaysRouted == {"interview_invite", "offer"}

\* the inbound pipeline got as far as the test of step 6, and no repository
\* call fails
RoutingTestReached ==
    /\ InboundDone
    /\ lastPipeline.input.fail = "none"
    /\ StepReached >= 6

\* C30: _process_inbound_email calls route_email exactly when needs_review is
\* false or the category is interview_invite or offer; a message that needs
\* review and has another category gets no task, and an interview_invite or
\* offer always gets a Q1 quadrant task, unmatched or queued for review too.
RoutingGate ==
    RoutingTestReached =>
        LET category == lastPipeline.classification.category
            needs_review == lastPipeline.needs_review
        IN /\ lastPipeline.routed <=> (~needs_review \/ category \in AlwaysRouted)
           /\ (needs_review /\ category \notin AlwaysRouted)
                 => TasksOf(lastPipeline.email_id) = {}
           /\ category \in AlwaysRouted
                 => \E i \in TasksOf(lastPipeline.email_id) :
                        /\ ~ticktick_tasks[i].is_calendar_event
                        /\ ticktick_tasks[i].project = "q1"

\* the test of step 6 alone: route_email is called exactly on the gate, and
\* a message kept back by it has no task
RoutingGateTest ==
    RoutingTestReached =>
        LET category == lastPipeline.classification.category
            needs_review == lastPipeline.needs_review
        IN /\ lastPipeline.routed <=> (~needs_review \/ category \in AlwaysRouted)
           /\ (needs_review /\ category \notin AlwaysRouted)
                 => TasksOf(lastPipeline.email_id) = {}

\* C27: the match record of an inbound message has method ai_disambiguation
\* only if match_email_to_job called the disambiguator for the message, and
\* method auto only if it did not.
MatchMethodTruthful ==
    (InboundDone /\ Len(email_job_matches) = 1) =>
        /\ email_job_matches[1].match_method = "ai_disambiguation"
              => lastMatch.result.disambiguated
        /\ email_job_matches[1].match_method = "auto"
              => ~lastMatch.result.disambiguated

----------------------------------------------------------------------------
(* Properties of the scoring functions (specification SpecScore) *)

CallDone(fn) == lastCall.phase = "done" /\ lastCall.fn = fn

\* C21: _timeline_score is 1.0 for equal timestamps, 0.0 when they are 90
\* days or more apart, always within [0, 1], never higher for a pair further
\* apart, and symmetric in its two arguments.
TimelineScoreLaw ==
    CallDone("_timeline_score") =>
        /\ lastCall.a = lastCall.b => lastCall.result = SCALE
        /\ Abs(lastCall.b - lastCall.a) >= TIMELINE_WINDOW_DAYS * TicksPerDay
              => lastCall.result = 0
        /\ InUnit(lastCall.result)
        /\ lastCall.result = _timeline_score(lastCall.b, lastCall.a)

\* C22 as stated: for all strings x and y the score is within [0, 1], and for
\* every string x, the empty one included, the score of x with x is 1.0.
SimilarityReflexiveForAll ==
    CallDone("_fuzzy_match_score") =>
        /\ InUnit(lastCall.result)
        /\ lastCall.a = lastCall.b => lastCall.result = SCALE

\* C22: for all strings x and y the score is within [0, 1]; the score of x
\* with x is 1.0 for every non-empty x; the score is 0.0 when either string
\* is empty, the score of the empty string with itself included.
SimilarityReflexiveNonEmpty ==
    CallDone("_fuzzy_match_score") =>
        /\ InUnit(lastCall.result)
        /\ (lastCall.a = lastCall.b /\ lastCall.a # <<>>) => lastCall.result = SCALE
        /\ (lastCall.a = <<>> \/ lastCall.b = <<>>) => lastCall.result = 0

\* a string of three characters was scored against itself
ReflexiveSeen ==
    /\ CallDone("_fuzzy_match_score")
    /\ lastCall.a = <<"a", "A", "b">>
    /\ lastCall.b = lastCall.a
    /\ lastCall.result = SCALE

\* the domain of the sender address of the call, None when there is none
SenderDomain ==
    _extract_domain(IF lastCall.a = None THEN <<>> ELSE lastCall.a)

\* the sender address has a non-empty domain and the job row a non-empty
\* company_domain
BothDomainsPresent ==
    /\ SenderDomain \notin {None, <<>>}
    /\ lastCall.b \notin {None, <<>>}

\* part is a run of consecutive characters of whole
HasPart(whole, part) ==
    \E i \in 0..Len(whole), j \in 0..Len(whole) :
        i <= j /\ SubSeq(whole, i + 1, j) = part

\* C23 as stated: with both domains present the sub-score is 1.0 if the
\* sender's domain equals the company domain or is contained within it, and
\* 0.0 otherwise; with either missing the sub-score is 0.
DomainContainedInCompany ==
    CallDone("domain_match") =>
        lastCall.result.domain_score =
            IF BothDomainsPresent
               /\ ( SenderDomain = lastCall.b
                    \/ HasPart(lastCall.b, SenderDomain) )
            THEN SCALE ELSE 0

\* C23: with both domains present the sub-score is 1.0 if the company domain
\* equals the lower-cased sender's domain or is contained within it (is a
\* substring of it), and 0.0 otherwise; with either missing the branch is not
\* entered and the sub-score is 0.
DomainContainsCompany ==
    CallDone("domain_match") =>
        /\ lastCall.result.computed = BothDomainsPresent
        /\ lastCall.result.domain_score =
              IF BothDomainsPresent /\ HasPart(SenderDomain, lastCall.b)
              THEN SCALE ELSE 0

\* the company domain b is a proper part of the sender's domain ab
SubdomainSenderSeen ==
    /\ CallDone("domain_match")
    /\ lastCall.a = <<"a", "@", "a", "b">>
    /\ lastCall.b = <<"b">>
    /\ lastCall.result.domain_score = SCALE

====
